---- MODULE Spec2Model ----
(***************************************************************************)
(* Model of the AMQP source (src/sources/amqp.rs): source construction     *)
(* (amqp_source), the ingestion loop (run_amqp_source) with its three-way  *)
(* tokio::select!, the handling of one delivery (receive_event,            *)
(* finalize_event_stream) and the acknowledgement dispatcher (handle_ack). *)
(* The broker, the downstream sink, the shutdown signal and the batch      *)
(* finalizer are the environment of the loop.                              *)
(***************************************************************************)
EXTENDS Integers, Sequences, FiniteSets, TLC

\* Number of deliveries the broker hands to the consumer in one run.
MaxDeliveries == 2

\* Delivery tags; a delivery and its acker (ack handle) are named by the tag.
Tags == 1..MaxDeliveries

\* event::BatchStatus, the outcome a batch receiver resolves to.
BatchStatus == {"Delivered", "Errored", "Rejected"}

\* One decode attempt of the framed reader: Ok(events), a continuable error,
\* or a non-continuable error.
Attempts == {"ok", "cont", "fatal"}

\* Payloads a delivery may carry, each the sequence of its decode attempts:
\* one that yields no record, one with a continuable error after a record,
\* one with a non-continuable error between two records.
Payloads == {<<"fatal", "ok">>, <<"ok", "cont">>, <<"ok", "fatal", "ok">>}

VARIABLES
    acknowledgements,   \* cx.do_acknowledgements(..): acknowledgement tracking on/off
    pc,                 \* position of the source: connect, start, consume, select,
                        \* sending, acking, dispatching, done
    result,             \* what the caller got: none, build_error, ok, err
    exit,               \* the place the loop returned from
    shutdown,           \* the ShutdownSignal has fired
    finalizer,          \* Option<UnorderedFinalizer>: TRUE when Some
    consumer,           \* what consumer.next() has ready: pending, msg, err, end
    nextTag,            \* delivery tag of the next broker message
    cur,                \* the delivery the loop is handling (0: none)
    payload,            \* decode attempts of the delivery being handled
    sendRes,            \* per delivery: result of out.send_event_stream
    out,                \* per delivery: records accepted downstream
    entries,            \* finalizer: registered entries, in registration order
    outcome,            \* per delivery: what its batch receiver resolved to
    ready,              \* finalizer: resolved entries, in resolution order
    dispatched,         \* (status, entry) pairs yielded by ack_stream, in order
    calls,              \* per delivery: ack/reject calls made on its acker
    ackRes,             \* per delivery: result of the broker ack/reject call
    handle,             \* per delivery: where its acker is
    log_namespace,      \* LogNamespace of the source: Legacy or Vector
    keys,               \* Keys: the configured key names of the source
    properties,         \* msg.properties.timestamp() of the delivery decoded
    event               \* the decoded event populate_event works on

vars == <<acknowledgements, pc, result, exit, shutdown, finalizer, consumer,
          nextTag, cur, payload, sendRes, out, entries, outcome, ready,
          dispatched, calls, ackRes, handle, log_namespace, keys, properties,
          event>>

\* Variables of the setup and of the environment signals.
ctl == <<acknowledgements, shutdown, finalizer>>
\* Variables of the broker message stream.
brk == <<consumer, nextTag>>
\* Variables of the downstream send.
snd == <<sendRes, out>>
\* Variables of the finalizer.
fin == <<entries, outcome, ready, dispatched>>
\* Variables of the ack handles.
ack == <<calls, ackRes, handle>>
\* Variables of the enrichment of one decoded event.
enr == <<log_namespace, keys, properties, event>>

----------------------------------------------------------------------------
\* Helpers

\* Elements of a sequence.
Range(s) == {s[i] : i \in 1..Len(s)}

\* Sequence s without its elements equal to x.
Remove(s, x) == SelectSeq(s, LAMBDA y : y # x)

\* Position of x in s (0 when absent).
IndexOf(s, x) == IF x \in Range(s) THEN CHOOSE i \in 1..Len(s) : s[i] = x ELSE 0

\* The records one delivery yields: the event stream of receive_event. An Ok
\* attempt yields its record (named by the attempt's position), a continuable
\* error is skipped, a non-continuable error breaks out of the loop.
RECURSIVE DecodeFrom(_, _)
DecodeFrom(p, i) ==
    IF i > Len(p) THEN << >>
    ELSE IF p[i] = "ok" THEN <<i>> \o DecodeFrom(p, i + 1)
    ELSE IF p[i] = "cont" THEN DecodeFrom(p, i + 1)
    ELSE << >>

\* The event stream without the break: a non-continuable error is skipped
\* like a continuable one.
RECURSIVE DecodeFromNoBreak(_, _)
DecodeFromNoBreak(p, i) ==
    IF i > Len(p) THEN << >>
    ELSE IF p[i] = "ok" THEN <<i>> \o DecodeFromNoBreak(p, i + 1)
    ELSE DecodeFromNoBreak(p, i + 1)

DecodeNoBreak(p) == DecodeFromNoBreak(p, 1)

\* The event stream collected all-or-nothing: any decode error discards the
\* records of the whole payload.
DecodeAllOrNothing(p) ==
    IF \E i \in 1..Len(p) : p[i] # "ok" THEN << >> ELSE DecodeFrom(p, 1)

Decode(p) == DecodeFrom(p, 1)

\* The field values of the delivery whose event is being populated, before
\* any event was decoded.
NoEnrichment ==
    /\ log_namespace = "Legacy"
    /\ keys = [routing_key_field |-> "routing", exchange_key |-> "exchange",
               offset_key |-> "offset"]
    /\ properties = [timestamp |-> "none"]
    /\ event = [log |-> << >>, metadata |-> << >>, populated |-> FALSE]

----------------------------------------------------------------------------
Init ==
    /\ acknowledgements \in BOOLEAN
    /\ pc = "connect"
    /\ result = "none"
    /\ exit = "none"
    /\ shutdown = FALSE
    /\ finalizer = FALSE
    /\ consumer = "pending"
    /\ nextTag = 1
    /\ cur = 0
    /\ payload = << >>
    /\ sendRes = [d \in Tags |-> "none"]
    /\ out = [d \in Tags |-> << >>]
    /\ entries = << >>
    /\ outcome = [d \in Tags |-> "none"]
    /\ ready = << >>
    /\ dispatched = << >>
    /\ calls = [d \in Tags |-> << >>]
    /\ ackRes = [d \in Tags |-> "none"]
    /\ handle = [d \in Tags |-> "broker"]
    /\ NoEnrichment

----------------------------------------------------------------------------
\* Source construction

\* amqp_source: config.connection.connect().await. A failure is mapped to
\* BuildError::AmqpCreateError and returned with `?`: no source task is made.
\* On success the boxed run_amqp_source future is returned, not yet polled.
Connect(ok) ==
    /\ pc = "connect"
    /\ pc' = IF ok THEN "start" ELSE "done"
    /\ result' = IF ok THEN result ELSE "build_error"
    /\ exit' = IF ok THEN exit ELSE "connect"
    /\ UNCHANGED <<enr, ctl, brk, cur, payload, snd, fin, ack>>

\* run_amqp_source making its finalizer whatever acknowledgements says.
StartAlwaysFinalizer ==
    /\ pc = "start"
    /\ finalizer' = TRUE
    /\ pc' = "consume"
    /\ UNCHANGED <<enr, acknowledgements, shutdown, result, exit, brk, cur,
                   payload, snd, fin, ack>>

\* run_amqp_source up to the first await: UnorderedFinalizer::maybe_new makes
\* the finalizer exactly when acknowledgements is set, then basic_consume is
\* issued.
Start ==
    /\ pc = "start"
    /\ finalizer' = acknowledgements
    /\ pc' = "consume"
    /\ UNCHANGED <<enr, acknowledgements, shutdown, result, exit, brk, cur,
                   payload,
                   snd, fin, ack>>

\* basic_consume with its error logged and not returned: the loop is entered
\* without a registered consumer.
BasicConsumeIgnoresError(ok) ==
    /\ pc = "consume"
    /\ pc' = "select"
    /\ exit' = IF ok THEN exit ELSE "basic_consume"
    /\ UNCHANGED <<enr, ctl, result, brk, cur, payload, snd, fin, ack>>

\* basic_consume(..).await.map_err(..)?: a failure logs and returns Err(())
\* from the running task; success enters the loop.
BasicConsume(ok) ==
    /\ pc = "consume"
    /\ pc' = IF ok THEN "select" ELSE "done"
    /\ result' = IF ok THEN result ELSE "err"
    /\ exit' = IF ok THEN exit ELSE "basic_consume"
    /\ UNCHANGED <<enr, ctl, brk, cur, payload, snd, fin, ack>>

----------------------------------------------------------------------------
\* Environment

\* The single-fire shutdown signal fires.
ShutdownFires ==
    /\ pc # "done"
    /\ ~shutdown
    /\ shutdown' = TRUE
    /\ UNCHANGED <<enr, acknowledgements, finalizer, pc, result, exit, brk,
                   cur,
                   payload, snd, fin, ack>>

\* The broker's consumer stream gets its next item ready: a delivery, a
\* consume error, or the end of the stream.
BrokerProduce(item) ==
    /\ pc \in {"select", "sending", "acking", "dispatching"}
    /\ consumer = "pending"
    /\ item = "msg" => nextTag <= MaxDeliveries
    /\ consumer' = item
    /\ UNCHANGED <<enr, ctl, pc, result, exit, nextTag, cur, payload, snd, fin, ack>>

\* The downstream reports the outcome of a registered batch: the entry's
\* receiver resolves and the entry joins the finalizer's ready queue.
Resolve(d, st) ==
    /\ d \in Range(entries)
    /\ outcome[d] = "none"
    /\ outcome' = [outcome EXCEPT ![d] = st]
    /\ ready' = Append(ready, d)
    /\ UNCHANGED <<enr, ctl, pc, result, exit, brk, cur, payload, snd, entries,
                   dispatched, ack>>

----------------------------------------------------------------------------
\* Pieces of the loop's code

\* Leaving run_amqp_source drops finalizer and ack_stream: the ackers still
\* held in finalizer entries are dropped with them.
DropOutstanding(h) ==
    [d \in Tags |-> IF h[d] = "finalizer" THEN "dropped" ELSE h[d]]

\* handle_ack acknowledging an Errored batch.
HandleAckAcksErrored(status) ==
    CASE status = "Delivered" -> <<"ack">>
      [] status = "Errored" -> <<"ack">>
      [] status = "Rejected" -> <<"reject">>

\* handle_ack with the reject of an Errored batch left out.
HandleAckNoReject(status) ==
    CASE status = "Delivered" -> <<"ack">>
      [] status = "Errored" -> << >>
      [] status = "Rejected" -> <<"reject">>

\* handle_ack: the broker calls made on the entry's acker for a batch status.
HandleAck(status) ==
    CASE status = "Delivered" -> <<"ack">>
      [] status = "Errored" -> <<"reject">>
      [] status = "Rejected" -> <<"reject">>

\* An OrderedFinalizer in place of the UnorderedFinalizer.
OrderedFinalizer ==
    FALSE

\* run_amqp_source builds its finalizer with UnorderedFinalizer::maybe_new.
Unordered ==
    TRUE

\* What ack_stream.next() can yield now. The stream of an unordered
\* finalizer yields the entry whose receiver resolved first, whatever was
\* registered first; that of an ordered one yields the entry registered first
\* once it has resolved.
AckStream(es, rd) ==
    IF Unordered
    THEN IF rd # << >> THEN {Head(rd)} ELSE {}
    ELSE IF es # << >> /\ Head(es) \in Range(rd) THEN {Head(es)} ELSE {}

\* finalize_event_stream registering or acking whatever the send returned.
SettleAlways(ok) ==
    TRUE

\* finalize_event_stream: only the Ok arm of send_event_stream registers the
\* delivery with the finalizer (acks on) or acks it (acks off).
SettleOnSend(ok) ==
    ok

\* finalize_event_stream returns () on a failed send and receive_event then
\* returns Ok(()): the `?` in the loop never fires and the loop selects again.
AfterSendError ==
    [pc |-> "select", result |-> "none", exit |-> "none"]

\* A failed ack/reject call escalated: the loop stops on it.
AfterAckCallStops(ok) ==
    IF ok THEN "select" ELSE "done"

\* A failed ack/reject call is only emitted as AmqpAckError/AmqpRejectError;
\* either way the handler returns and the loop selects again.
AfterAckCall(ok) ==
    "select"

\* The shutdown arm returning Err(()).
ShutdownResultErr ==
    "err"

\* `_ = &mut shutdown => break` followed by Ok(()).
ShutdownResult ==
    "ok"

\* The consume error arm returning Ok(()).
ConsumeErrorIgnored ==
    "ok"

\* consumer.next() gave Some(Err(error)): AmqpEventError, return Err(()).
ConsumeErrorResult ==
    "err"

\* The end of the broker stream returning Err(()).
StreamEndFails ==
    "err"

\* consumer.next() gave None: break, then Ok(()).
StreamEndResult ==
    "ok"

\* The successful send without the ack call after it.
NoImmediateAck ==
    << >>

\* The ack call made right after a successful send when there is no finalizer.
ImmediateAck ==
    <<"ack">>

----------------------------------------------------------------------------
\* The ingestion loop: one action per arm of tokio::select! (the arm taken is
\* any of those that are ready: select! polls its arms in a random order) and
\* one per await inside an arm.

\* The shutdown arm taken while a delivery is being sent: the send is
\* cancelled and the loop left.
SelectShutdownPreempts ==
    /\ pc \in {"select", "sending"}
    /\ shutdown
    /\ pc' = "done"
    /\ result' = ShutdownResult
    /\ exit' = "shutdown"
    /\ entries' = << >>
    /\ ready' = << >>
    /\ handle' = DropOutstanding(handle)
    /\ UNCHANGED <<enr, ctl, brk, cur, payload, snd, outcome, dispatched, calls,
                   ackRes>>

\* `_ = &mut shutdown => break`, then Ok(()).
SelectShutdown ==
    /\ pc = "select"
    /\ shutdown
    /\ pc' = "done"
    /\ result' = ShutdownResult
    /\ exit' = "shutdown"
    /\ entries' = << >>
    /\ ready' = << >>
    /\ handle' = DropOutstanding(handle)
    /\ UNCHANGED <<enr, ctl, brk, cur, payload, snd, outcome, dispatched, calls,
                   ackRes>>

\* The completion arm of a select! that polls the shutdown arm first: it is
\* not taken once the signal has fired.
SelectCompletionBiased ==
    /\ pc = "select"
    /\ ~shutdown
    /\ finalizer
    /\ \E d \in AckStream(entries, ready) :
       LET status == outcome[d]
       IN  /\ entries' = Remove(entries, d)
           /\ ready' = Remove(ready, d)
           /\ dispatched' = Append(dispatched, <<status, d>>)
           /\ calls' = [calls EXCEPT ![d] = @ \o HandleAck(status)]
           /\ handle' = [handle EXCEPT ![d] = "consumed"]
           /\ cur' = d
    /\ pc' = "dispatching"
    /\ UNCHANGED <<enr, ctl, result, exit, brk, payload, snd, outcome, ackRes>>

\* `entry = ack_stream.next()` gave Some((status, entry)): the pair leaves the
\* finalizer and handle_ack makes the broker call for it and awaits it.
SelectCompletion ==
    /\ pc = "select"
    /\ finalizer
    /\ \E d \in AckStream(entries, ready) :
       LET status == outcome[d]
       IN  /\ entries' = Remove(entries, d)
           /\ ready' = Remove(ready, d)
           /\ dispatched' = Append(dispatched, <<status, d>>)
           /\ calls' = [calls EXCEPT ![d] = @ \o HandleAck(status)]
           /\ handle' = [handle EXCEPT ![d] = "consumed"]
           /\ cur' = d
    /\ pc' = "dispatching"
    /\ UNCHANGED <<enr, ctl, result, exit, brk, payload, snd, outcome, ackRes>>

\* The message arm with the send spawned instead of awaited: the loop selects
\* again while the delivery is still being sent.
SelectMessageNoAwait(p) ==
    /\ pc = "select"
    /\ consumer = "msg"
    /\ consumer' = "pending"
    /\ cur' = nextTag
    /\ nextTag' = nextTag + 1
    /\ payload' = p
    /\ handle' = [handle EXCEPT ![nextTag] = "loop"]
    /\ pc' = "select"
    /\ UNCHANGED <<enr, ctl, result, exit, snd, fin, calls, ackRes>>

\* `opt_m = consumer.next()` gave Some(Ok(msg)): receive_event builds the
\* event stream over the payload and finalize_event_stream starts sending it.
SelectMessage(p) ==
    /\ pc = "select"
    /\ consumer = "msg"
    /\ consumer' = "pending"
    /\ cur' = nextTag
    /\ nextTag' = nextTag + 1
    /\ payload' = p
    /\ handle' = [handle EXCEPT ![nextTag] = "loop"]
    /\ pc' = "sending"
    /\ UNCHANGED <<enr, ctl, result, exit, snd, fin, calls, ackRes>>

\* `opt_m = consumer.next()` gave Some(Err(error)): emit AmqpEventError and
\* return Err(()).
SelectConsumeError ==
    /\ pc = "select"
    /\ consumer = "err"
    /\ consumer' = "pending"
    /\ pc' = "done"
    /\ result' = ConsumeErrorResult
    /\ exit' = "consume_error"
    /\ entries' = << >>
    /\ ready' = << >>
    /\ handle' = DropOutstanding(handle)
    /\ UNCHANGED <<enr, ctl, nextTag, cur, payload, snd, outcome, dispatched, calls,
                   ackRes>>

\* `opt_m = consumer.next()` gave None: break, then Ok(()).
SelectStreamEnd ==
    /\ pc = "select"
    /\ consumer = "end"
    /\ consumer' = "closed"
    /\ pc' = "done"
    /\ result' = StreamEndResult
    /\ exit' = "stream_end"
    /\ entries' = << >>
    /\ ready' = << >>
    /\ handle' = DropOutstanding(handle)
    /\ UNCHANGED <<enr, ctl, nextTag, cur, payload, snd, outcome, dispatched, calls,
                   ackRes>>

\* What the sink accepted of a stream it failed on: some of its first records,
\* never all of them.
Accepted(recs) ==
    {SubSeq(recs, 1, k) : k \in 0..(IF Len(recs) = 0 THEN 0 ELSE Len(recs) - 1)}

\* The registration made twice for one delivery.
RegisterTwice(es, d) == Append(Append(es, d), d)

\* finalizer.add(msg.into(), receiver): one entry for the delivery joins the
\* finalizer.
Register(es, d) == Append(es, d)

\* finalize_event_stream with the acker used by both branches: the delivery is
\* registered with the finalizer and acked by the loop as well.
SendReturnsSharesHandle(ok) ==
    /\ pc = "sending"
    /\ sendRes' = [sendRes EXCEPT ![cur] = IF ok THEN "ok" ELSE "fail"]
    /\ IF ok
       THEN out' = [out EXCEPT ![cur] = Decode(payload)]
       ELSE \E acc \in Accepted(Decode(payload)) :
                out' = [out EXCEPT ![cur] = acc]
    /\ payload' = << >>
    /\ IF SettleOnSend(ok)
       THEN IF finalizer
            THEN /\ entries' = Register(entries, cur)
                 /\ calls' = [calls EXCEPT ![cur] = @ \o ImmediateAck]
                 /\ handle' = [handle EXCEPT ![cur] = "finalizer"]
                 /\ pc' = "select"
                 /\ cur' = 0
                 /\ UNCHANGED <<result, exit>>
            ELSE /\ calls' = [calls EXCEPT ![cur] = @ \o ImmediateAck]
                 /\ handle' = [handle EXCEPT ![cur] = "consumed"]
                 /\ pc' = "acking"
                 /\ UNCHANGED <<entries, cur, result, exit>>
       ELSE /\ handle' = [handle EXCEPT ![cur] = "dropped"]
            /\ pc' = AfterSendError.pc
            /\ result' = AfterSendError.result
            /\ exit' = AfterSendError.exit
            /\ cur' = 0
            /\ UNCHANGED <<entries, calls>>
    /\ UNCHANGED <<enr, ctl, brk, outcome, ready, dispatched, ackRes>>

\* finalize_event_stream settling only a delivery that gave records: one
\* that gave none is dropped like a delivery whose send failed.
SendReturnsSkipsEmpty(ok) ==
    /\ pc = "sending"
    /\ sendRes' = [sendRes EXCEPT ![cur] = IF ok THEN "ok" ELSE "fail"]
    /\ IF ok
       THEN out' = [out EXCEPT ![cur] = Decode(payload)]
       ELSE \E acc \in Accepted(Decode(payload)) :
                out' = [out EXCEPT ![cur] = acc]
    /\ payload' = << >>
    /\ IF SettleOnSend(ok) /\ Decode(payload) # << >>
       THEN IF finalizer
            THEN /\ entries' = Register(entries, cur)
                 /\ handle' = [handle EXCEPT ![cur] = "finalizer"]
                 /\ pc' = "select"
                 /\ cur' = 0
                 /\ UNCHANGED <<calls, result, exit>>
            ELSE /\ calls' = [calls EXCEPT ![cur] = @ \o ImmediateAck]
                 /\ handle' = [handle EXCEPT ![cur] = "consumed"]
                 /\ pc' = "acking"
                 /\ UNCHANGED <<entries, cur, result, exit>>
       ELSE /\ handle' = [handle EXCEPT ![cur] = "dropped"]
            /\ pc' = AfterSendError.pc
            /\ result' = AfterSendError.result
            /\ exit' = AfterSendError.exit
            /\ cur' = 0
            /\ UNCHANGED <<entries, calls>>
    /\ UNCHANGED <<enr, ctl, brk, outcome, ready, dispatched, ackRes>>

\* out.send_event_stream(&mut stream).await returns in finalize_event_stream.
\* Ok with a finalizer: finalizer.add(msg.into(), receiver). Ok without one:
\* msg.acker.ack(..) is called and awaited. Err: StreamClosedError is emitted,
\* msg is dropped, and receive_event returns Ok(()) all the same.
SendReturns(ok) ==
    /\ pc = "sending"
    /\ sendRes' = [sendRes EXCEPT ![cur] = IF ok THEN "ok" ELSE "fail"]
    /\ IF ok
       THEN out' = [out EXCEPT ![cur] = Decode(payload)]
       ELSE \E acc \in Accepted(Decode(payload)) :
                out' = [out EXCEPT ![cur] = acc]
    /\ payload' = << >>
    /\ IF SettleOnSend(ok)
       THEN IF finalizer
            THEN /\ entries' = Register(entries, cur)
                 /\ handle' = [handle EXCEPT ![cur] = "finalizer"]
                 /\ pc' = "select"
                 /\ cur' = 0
                 /\ UNCHANGED <<calls, result, exit>>
            ELSE /\ calls' = [calls EXCEPT ![cur] = @ \o ImmediateAck]
                 /\ handle' = [handle EXCEPT ![cur] = "consumed"]
                 /\ pc' = "acking"
                 /\ UNCHANGED <<entries, cur, result, exit>>
       ELSE /\ handle' = [handle EXCEPT ![cur] = "dropped"]
            /\ pc' = AfterSendError.pc
            /\ result' = AfterSendError.result
            /\ exit' = AfterSendError.exit
            /\ cur' = 0
            /\ UNCHANGED <<entries, calls>>
    /\ UNCHANGED <<enr, ctl, brk, outcome, ready, dispatched, ackRes>>

\* The broker call made by handle_ack or by the immediate ack returns. An Err
\* is emitted as AmqpAckError / AmqpRejectError and nothing else is done.
AckReturns(ok) ==
    /\ pc \in {"acking", "dispatching"}
    /\ ackRes' = [ackRes EXCEPT ![cur] = IF ok THEN "ok" ELSE "fail"]
    /\ pc' = AfterAckCall(ok)
    /\ cur' = 0
    /\ UNCHANGED <<enr, ctl, result, exit, brk, payload, snd, fin, calls, handle>>

----------------------------------------------------------------------------
Next ==
    \/ \E ok \in BOOLEAN : Connect(ok)
    \/ Start
    \/ \E ok \in BOOLEAN : BasicConsume(ok)
    \/ ShutdownFires
    \/ \E item \in {"msg", "err", "end"} : BrokerProduce(item)
    \/ \E d \in Tags, st \in BatchStatus : Resolve(d, st)
    \/ SelectShutdown
    \/ SelectCompletion
    \/ \E p \in Payloads : SelectMessage(p)
    \/ SelectConsumeError
    \/ SelectStreamEnd
    \/ \E ok \in BOOLEAN : SendReturns(ok)
    \/ \E ok \in BOOLEAN : AckReturns(ok)

Spec == Init /\ [][Next]_vars

\* The loop under the scheduling its runtime gives it: a send or a broker call
\* that was started returns, a registered batch gets its outcome, and the
\* completion arm of select!, when ready again and again, is taken (select!
\* picks the arm it polls first at random).
FairSpec ==
    /\ Spec
    /\ WF_vars(\E ok \in BOOLEAN : SendReturns(ok))
    /\ WF_vars(\E ok \in BOOLEAN : AckReturns(ok))
    /\ WF_vars(\E d \in Tags, st \in BatchStatus : Resolve(d, st))
    /\ SF_vars(SelectCompletion)

----------------------------------------------------------------------------
\* Deliveries sent downstream successfully with acknowledgement tracking on.
Forwarded(d) == acknowledgements /\ sendRes[d] = "ok"

\* C1 as stated: with acknowledgement tracking on, every delivery whose
\* records were sent downstream successfully eventually has exactly one of
\* ack/reject invoked on its handle, and no handle ever has more than one
\* ack/reject invoked on it.
C1_EveryForwardedResolved ==
    /\ \A d \in Tags : [](Forwarded(d) => <>(Len(calls[d]) = 1))
    /\ [](\A d \in Tags : Len(calls[d]) <= 1)

\* C1 amended: with acknowledgement tracking on, every delivery whose records
\* were sent downstream successfully eventually either has exactly one of
\* ack/reject invoked on its handle or has its handle dropped unresolved by
\* the loop returning (shutdown, end of the broker stream, consume error), and
\* no handle ever has more than one ack/reject invoked on it.
C1_ResolvedOrDropped ==
    /\ \A d \in Tags :
          [](Forwarded(d) => <>(Len(calls[d]) = 1 \/ handle[d] = "dropped"))
    /\ [](\A d \in Tags : Len(calls[d]) <= 1)

\* C1 witness: one forwarded delivery got its single call while another was
\* dropped unresolved by the loop returning.
C1_Witness ==
    \E d, e \in Tags :
        /\ Forwarded(d) /\ Len(calls[d]) = 1
        /\ Forwarded(e) /\ calls[e] = << >> /\ handle[e] = "dropped"

----------------------------------------------------------------------------
\* The delivery a step takes out of ack_stream, as a set (empty when the step
\* takes none).
Yielded ==
    IF dispatched' # dispatched THEN {dispatched'[Len(dispatched')][2]} ELSE {}

\* C2 as stated: in either acknowledgement mode, the step in which a
\* delivery's downstream send fails ends the loop with an error result, and
\* after a failed send no further broker message is pulled and no completion
\* is handled.
C2_SendFailureTerminates ==
    [][/\ \A d \in Tags :
            (sendRes[d] # "fail" /\ sendRes'[d] = "fail")
                => (pc' = "done" /\ result' = "err")
       /\ (\E d \in Tags : sendRes[d] = "fail")
            => (nextTag' = nextTag /\ dispatched' = dispatched)]_vars

\* C3: in either acknowledgement mode, a delivery whose downstream send failed
\* is in no state acknowledged, rejected or held by the finalizer: no call was
\* made on its handle, it is no finalizer entry, it has no outcome and no
\* completion of it was dispatched; its handle was dropped.
C3_FailedSendNeverSettled ==
    \A d \in Tags :
        sendRes[d] = "fail" =>
            /\ calls[d] = << >>
            /\ ackRes[d] = "none"
            /\ d \notin Range(entries)
            /\ d \notin Range(ready)
            /\ outcome[d] = "none"
            /\ \A i \in 1..Len(dispatched) : dispatched[i][2] # d
            /\ handle[d] = "dropped"

\* C3 witness: a send failed, the handle got no call, and the loop has since
\* handled a later delivery up to its ack or reject call.
C3_Witness ==
    \E d, e \in Tags :
        /\ d < e
        /\ sendRes[d] = "fail" /\ calls[d] = << >>
        /\ sendRes[e] = "ok" /\ Len(calls[e]) = 1

\* C4: no step yields the completion of an entry A while an entry B registered
\* after A, whose completion resolved before A's, has not been yielded yet: B
\* is yielded before A.
C4_CompletionOrder ==
    [][\A a, b \in Tags :
          (/\ IndexOf(entries, a) # 0 /\ IndexOf(entries, b) # 0
           /\ IndexOf(entries, a) < IndexOf(entries, b)
           /\ IndexOf(ready, a) # 0 /\ IndexOf(ready, b) # 0
           /\ IndexOf(ready, b) < IndexOf(ready, a))
              => a \notin Yielded]_vars

\* C4 witness: B, registered after A, has had its ack/reject call made while
\* A is still an outstanding entry of the finalizer.
C4_Witness ==
    \E a, b \in Tags :
        /\ a < b
        /\ a \in Range(entries) /\ calls[a] = << >>
        /\ Len(dispatched) = 1 /\ dispatched[1][2] = b /\ Len(calls[b]) = 1

\* C5: with acknowledgement tracking off, the step in which a delivery's send
\* returns Ok is the step in which ack is called on that delivery's handle,
\* and the loop is then awaiting that call, not selecting; there is no
\* finalizer, no finalizer entry, and no completion is ever dispatched.
C5_ImmediateAck ==
    /\ [][~acknowledgements =>
            \A d \in Tags :
                (sendRes[d] # "ok" /\ sendRes'[d] = "ok")
                    => (calls'[d] = <<"ack">> /\ pc' = "acking" /\ cur' = d)]_vars
    /\ [](~acknowledgements =>
            (~finalizer /\ entries = << >> /\ ready = << >> /\ dispatched = << >>))

\* C5 witness: acks off, delivery sent and acked while the shutdown signal and
\* the next broker message are both ready and still unhandled.
C5_Witness ==
    /\ ~acknowledgements
    /\ pc = "acking"
    /\ sendRes[cur] = "ok" /\ calls[cur] = <<"ack">>
    /\ shutdown
    /\ consumer = "msg"

C7_OutcomeToCall ==
    \A i \in 1..Len(dispatched) :
        LET status == dispatched[i][1]
            d == dispatched[i][2]
        IN  /\ status \in BatchStatus
            /\ status = outcome[d]
            /\ status = "Delivered" => calls[d] = <<"ack">>
            /\ status \in {"Errored", "Rejected"} => calls[d] = <<"reject">>

\* C7 witness: a Delivered completion and an Errored one have both been
\* dispatched.
C7_Witness ==
    \E i, j \in 1..Len(dispatched) :
        /\ dispatched[i][1] = "Delivered"
        /\ dispatched[j][1] = "Errored"

\* C8: the step in which a broker ack or reject call fails leaves the loop
\* running (back at select!, no result) and makes no further call; no handle
\* ever has more than one call made on it.
C8_AckFailureTolerated ==
    /\ [][\A d \in Tags :
            (ackRes[d] = "none" /\ ackRes'[d] = "fail")
                => (pc' = "select" /\ result' = "none" /\ exit' = "none"
                    /\ calls' = calls)]_vars
    /\ [](\A d \in Tags : Len(calls[d]) <= 1)

\* C8 witness: the first dispatched completion's broker call failed, it still
\* has one call only, and the loop went on to dispatch a second completion
\* whose call returned.
C8_Witness ==
    /\ Len(dispatched) = 2
    /\ ackRes[dispatched[1][2]] = "fail"
    /\ Len(calls[dispatched[1][2]]) = 1
    /\ ackRes[dispatched[2][2]] = "ok"
    /\ pc = "select"

\* C9: the step that takes a consume error off the broker stream ends the
\* loop with an error result; it sends no record, pulls no delivery, makes no
\* ack/reject call and dispatches nothing, and the finalizer's outstanding
\* entries are left without a call.
C9_ConsumeErrorFatal ==
    /\ [][(consumer = "err" /\ consumer' # "err") =>
            /\ pc' = "done" /\ result' = "err" /\ exit' = "consume_error"
            /\ out' = out /\ sendRes' = sendRes /\ nextTag' = nextTag
            /\ calls' = calls /\ dispatched' = dispatched
            /\ \A d \in Range(entries) :
                   handle'[d] = "dropped" /\ calls'[d] = << >>]_vars
    /\ [](exit = "consume_error" => (pc = "done" /\ result = "err"))

\* C9 witness: the loop ended on a consume error with a forwarded delivery
\* left without a call.
C9_Witness ==
    /\ exit = "consume_error"
    /\ \E d \in Tags :
        Forwarded(d) /\ calls[d] = << >> /\ handle[d] = "dropped"

\* C10: the step that finds the broker stream ended ends the loop with the
\* success result the shutdown arm gives, dispatches no completion and makes
\* no ack/reject call, and none is dispatched afterwards.
C10_StreamEndExits ==
    /\ [][(consumer = "end" /\ consumer' # "end") =>
            /\ pc' = "done" /\ result' = "ok" /\ result' = ShutdownResult
            /\ exit' = "stream_end"
            /\ dispatched' = dispatched /\ calls' = calls]_vars
    /\ [][pc = "done" => dispatched' = dispatched]_vars

\* C10 witness: the loop ended on the end of the broker stream while a
\* resolved completion was waiting; it was never dispatched.
C10_Witness ==
    /\ exit = "stream_end"
    /\ result = "ok"
    /\ \E d \in Tags :
        Forwarded(d) /\ outcome[d] # "none" /\ calls[d] = << >>

----------------------------------------------------------------------------
\* The event stream of one delivery, over every payload of up to MaxAttempts
\* decode attempts: the loop has taken delivery 1 off the broker stream and is
\* sending its records.

\* Longest payload, in decode attempts.
MaxAttempts == 5

\* Every sequence of at most MaxAttempts decode attempts.
AttemptSeqs == UNION {[1..n -> Attempts] : n \in 0..MaxAttempts}

DecodeInit ==
    /\ acknowledgements \in BOOLEAN
    /\ pc = "sending"
    /\ result = "none"
    /\ exit = "none"
    /\ shutdown = FALSE
    /\ finalizer = acknowledgements
    /\ consumer = "pending"
    /\ nextTag = 2
    /\ cur = 1
    /\ payload \in AttemptSeqs
    /\ sendRes = [d \in Tags |-> "none"]
    /\ out = [d \in Tags |-> << >>]
    /\ entries = << >>
    /\ outcome = [d \in Tags |-> "none"]
    /\ ready = << >>
    /\ dispatched = << >>
    /\ calls = [d \in Tags |-> << >>]
    /\ ackRes = [d \in Tags |-> "none"]
    /\ handle = [d \in Tags |-> IF d = 1 THEN "loop" ELSE "broker"]
    /\ NoEnrichment

DecodeNext ==
    \E ok \in BOOLEAN : SendReturns(ok)

DecodeSpec == DecodeInit /\ [][DecodeNext]_vars

\* Position of the first non-continuable error of a payload (past its end
\* when it has none).
FirstFatal(p) ==
    IF \E i \in 1..Len(p) : p[i] = "fatal"
    THEN CHOOSE i \in 1..Len(p) :
            p[i] = "fatal" /\ \A j \in 1..(i - 1) : p[j] # "fatal"
    ELSE Len(p) + 1

\* The records a payload is to yield: those of its successful attempts that
\* come before its first non-continuable error, in order.
Emitted(p) ==
    SelectSeq([i \in 1..Len(p) |-> i],
              LAMBDA i : p[i] = "ok" /\ i < FirstFatal(p))

\* C11: the records sent for a delivery are those of its successful decode
\* attempts before the first non-continuable error, in order: a continuable
\* error skips its attempt only, a non-continuable one ends the sequence. Of
\* 5 attempts, a fatal error on the 2nd yields record 1 alone and a
\* continuable error on the 2nd yields records 1, 3, 4, 5.
C11_DecodeBoundary ==
    [][(pc = "sending" /\ sendRes'[cur] = "ok") =>
          /\ out'[cur] = Emitted(payload)
          /\ payload = <<"ok", "fatal", "ok", "ok", "ok">> => out'[cur] = <<1>>
          /\ payload = <<"ok", "cont", "ok", "ok", "ok">>
                => out'[cur] = <<1, 3, 4, 5>>]_vars

\* C11 witness: a delivery was sent with its 2nd attempt skipped and records
\* 1, 3, 4, 5 emitted.
C11_Witness ==
    /\ sendRes[1] = "ok"
    /\ out[1] = <<1, 3, 4, 5>>

\* A payload with a decode error of either kind among its attempts.
HasDecodeError(p) ==
    \E i \in 1..Len(p) : p[i] \in {"cont", "fatal"}

\* C12: the step that ends the handling of a delivery whose payload had a
\* decode error, continuable or not, leaves the loop running with no result;
\* when the send succeeded, the records decoded before a non-continuable
\* error and around a continuable one were sent, and the delivery was
\* registered with the finalizer (acks on) or acked (acks off).
C12_DecodeErrorNotFatal ==
    [][(pc = "sending" /\ pc' # "sending" /\ HasDecodeError(payload)) =>
          /\ pc' \in {"select", "acking"}
          /\ result' = "none" /\ exit' = "none"
          /\ sendRes'[cur] = "ok" =>
                /\ out'[cur] = Emitted(payload)
                /\ IF acknowledgements
                   THEN cur \in Range(entries') /\ handle'[cur] = "finalizer"
                   ELSE calls'[cur] = <<"ack">>]_vars

\* C12 witness: delivery 1, whose payload had a decode error after its first
\* record, was sent with that record, and the loop has gone on to delivery 2.
C12_Witness ==
    /\ sendRes[1] = "ok" /\ out[1] = <<1>>
    /\ pc = "sending" /\ cur = 2 /\ HasDecodeError(payload)
    /\ result = "none"

\* C13: while the send of a delivery is outstanding, no step pulls a broker
\* message (an item ready on the broker stream stays there) and none
\* dispatches a completion; a delivery held by the loop is the one being
\* sent, so at most one delivery is in the sending phase.
C13_Backpressure ==
    /\ [][pc = "sending" =>
            /\ nextTag' = nextTag
            /\ consumer # "pending" => consumer' = consumer
            /\ dispatched' = dispatched
            /\ \A d \in Range(entries) : d \in Range(entries')]_vars
    /\ [](\A d \in Tags : handle[d] = "loop" => (pc = "sending" /\ cur = d))
    /\ [](Cardinality({d \in Tags : handle[d] = "loop"}) <= 1)

\* C13 witness: a send is outstanding while the next broker message is ready
\* and has not been pulled.
C13_Witness ==
    /\ pc = "sending"
    /\ consumer = "msg"
    /\ nextTag = cur + 1
    /\ sendRes[cur] = "none"

\* C14: with acknowledgements on, a delivery joins the finalizer only in the
\* step in which its send returned Ok, and a broker call is made on a handle
\* only when the delivery's send had succeeded and its batch outcome had
\* arrived; no state holds an entry or a call without them.
C14_RegisterAfterSendAckAfterOutcome ==
    /\ [][acknowledgements =>
            \A d \in Tags :
                /\ (d \notin Range(entries) /\ d \in Range(entries'))
                       => (pc = "sending" /\ cur = d /\ sendRes'[d] = "ok")
                /\ calls'[d] # calls[d]
                       => /\ sendRes[d] = "ok"
                          /\ outcome[d] \in BatchStatus
                          /\ d \in Range(entries)]_vars
    /\ [](acknowledgements =>
            \A d \in Tags :
                /\ d \in Range(entries) => sendRes[d] = "ok"
                /\ outcome[d] # "none" => sendRes[d] = "ok"
                /\ calls[d] # << >>
                       => (sendRes[d] = "ok" /\ outcome[d] \in BatchStatus))

\* C14 witness: one delivery was rejected after its outcome arrived while a
\* second one is registered and still waits for its outcome.
C14_Witness ==
    /\ acknowledgements
    /\ calls[1] = <<"reject">>
    /\ entries = <<2>>
    /\ outcome[2] = "none"

NoDup(s) == \A i, j \in 1..Len(s) : s[i] = s[j] => i = j

DispatchedTags == [i \in 1..Len(dispatched) |-> dispatched[i][2]]

\* C15: the finalizer holds at most one entry per delivery, the completion
\* stream returns no entry twice, and an entry it returned is no longer in the
\* finalizer, also when several entries are resolved together.
C15_OneEntryYieldedOnce ==
    /\ [](NoDup(entries))
    /\ [](NoDup(ready) /\ Range(ready) \subseteq Range(entries))
    /\ [](NoDup(DispatchedTags))
    /\ [](Range(DispatchedTags) \cap Range(entries) = {})
    /\ [][Len(dispatched') > Len(dispatched) =>
            /\ Len(dispatched') = Len(dispatched) + 1
            /\ dispatched'[Len(dispatched')][2] \in Range(entries)
            /\ dispatched'[Len(dispatched')][2] \notin Range(entries')
            /\ dispatched'[Len(dispatched')][2] \notin Range(ready')]_vars

\* C15 witness: two entries have their outcome, one has been returned and the
\* other is still waiting in the finalizer.
C15_Witness ==
    /\ Len(dispatched) = 1
    /\ Len(ready) = 1
    /\ ready[1] # dispatched[1][2]
    /\ \A d \in Tags : outcome[d] # "none"

\* Where a delivery's acker is, read off the structures that hold it.
InLoop(d) == pc = "sending" /\ cur = d

InFinalizer(d) == d \in Range(entries)

Consumed(d) == calls[d] # << >>

Places(d) ==
    (IF InLoop(d) THEN {"loop"} ELSE {})
        \cup (IF InFinalizer(d) THEN {"finalizer"} ELSE {})
        \cup (IF Consumed(d) THEN {"consumed"} ELSE {})

\* C16: a delivery's acker is in one place: with the loop while the delivery
\* is sent, in one finalizer entry, consumed by one ack or reject, or dropped
\* (in none of the three); a delivery not yet pulled is in none.
C16_SingleOwnership ==
    \A d \in Tags :
        /\ Cardinality(Places(d)) <= 1
        /\ Cardinality({i \in 1..Len(entries) : entries[i] = d}) <= 1
        /\ Len(calls[d]) <= 1
        /\ d >= nextTag => (Places(d) = {} /\ handle[d] = "broker")
        /\ d < nextTag =>
              /\ handle[d] \in {"loop", "finalizer", "consumed", "dropped"}
              /\ Places(d) = IF handle[d] = "dropped" THEN {} ELSE {handle[d]}

\* C16 witness: one acker is in a finalizer entry while another has been
\* consumed by the ack the dispatcher is making.
C16_Witness ==
    /\ handle[1] = "finalizer"
    /\ InFinalizer(1)
    /\ handle[2] = "consumed"
    /\ calls[2] = <<"ack">>
    /\ pc = "dispatching"

\* C17: whatever the finalizer holds unresolved, the loop at select! can take
\* a waiting broker message, a send in progress can return and register, and
\* the entry whose outcome arrived first can be dispatched, whichever entries
\* were registered before it.
C17_NoHeadOfLineBlocking ==
    /\ []((pc = "select" /\ consumer = "msg")
              => ENABLED (\E p \in Payloads : SelectMessage(p)))
    /\ [](pc = "sending" => ENABLED SendReturns(TRUE))
    /\ []((pc = "select" /\ ready # << >>) => ENABLED SelectCompletion)
    /\ [](ready # << >> => Head(ready) \in AckStream(entries, ready))
    /\ [][(pc = "sending" /\ finalizer /\ sendRes'[cur] = "ok")
              => entries' = Append(entries, cur)]_vars

\* C17 witness: the first delivery is registered and has no outcome, and the
\* second one, registered after it, has been dispatched.
C17_Witness ==
    /\ entries = <<1>>
    /\ outcome[1] = "none"
    /\ Len(dispatched) = 1
    /\ dispatched[1][2] = 2

----------------------------------------------------------------------------
\* populate_event on its own: one decoded event of one delivery, with every
\* namespace, configured key names, broker timestamp and decoded record.

\* Paths a decoded record may already hold at its top level.
Fields == {"routing", "exchange", "offset", "timestamp", "source_type"}

\* Names the three key options of the source may be configured with.
KeyNames == {"routing", "exchange", "offset", "timestamp"}

\* msg.properties.timestamp(): absent, a number of milliseconds chrono can
\* represent, or one beyond its range.
Timestamps == {"none", "in_range", "out_of_range"}

\* .and_then(|millis| Utc.timestamp_millis_opt(millis as _).latest()): None
\* stays None, a representable number of milliseconds becomes Some(instant),
\* and timestamp_millis_opt gives LocalResult::None for any other, which
\* latest() turns into None.
TimestampMillisOpt(t) ==
    IF t = "in_range" THEN "instant" ELSE "none"

\* log.try_insert(path, value): writes only where the path holds nothing.
TryInsert(f, k, v) ==
    IF k \in DOMAIN f THEN f ELSE f @@ (k :> v)

\* log.insert(path, value): writes, replacing what the path holds.
Insert(f, k, v) ==
    (k :> v) @@ f

\* The legacy keys passed as LegacyKey::Overwrite.
LegacyKeyOverwrite ==
    "Overwrite"

\* populate_event passes each of its three keys as LegacyKey::InsertIfEmpty.
LegacyKey ==
    "InsertIfEmpty"

\* LogNamespace::insert_source_metadata: in the Vector namespace the value goes
\* to the metadata under (source name, metadata_key); in the Legacy namespace
\* it goes to the event under the legacy key, as the kind of the key says.
InsertSourceMetadata(ns, ev, legacy_key, metadata_key, value) ==
    IF ns = "Vector"
    THEN [ev EXCEPT !.metadata = Insert(@, <<"amqp", metadata_key>>, value)]
    ELSE IF legacy_key[1] = "InsertIfEmpty"
         THEN [ev EXCEPT !.log = TryInsert(@, legacy_key[2], value)]
         ELSE [ev EXCEPT !.log = Insert(@, legacy_key[2], value)]

\* LogNamespace::insert_vector_metadata: metadata ("vector", metadata_key) in
\* the Vector namespace, try_insert under the legacy key in the Legacy one.
InsertVectorMetadata(ns, ev, legacy_key, metadata_key, value) ==
    IF ns = "Vector"
    THEN [ev EXCEPT !.metadata = Insert(@, <<"vector", metadata_key>>, value)]
    ELSE [ev EXCEPT !.log = TryInsert(@, legacy_key, value)]

\* The Vector arm with the broker timestamp defaulted to the current time.
VectorTimestampOrNow(timestamp) ==
    IF timestamp = "none" THEN "now" ELSE timestamp

\* `if let Some(timestamp) = timestamp` of the Vector arm: the broker
\* timestamp as it was passed, None included.
VectorTimestamp(timestamp) ==
    timestamp

\* populate_event(event, timestamp, keys, log_namespace).
PopulateEvent(ev, timestamp, ks, ns) ==
    LET e1 == InsertSourceMetadata(ns, ev, <<LegacyKey, ks.routing_key_field>>,
                                   "routing", ks.routing)
        e2 == InsertSourceMetadata(ns, e1, <<LegacyKey, ks.exchange_key>>,
                                   "exchange", ks.exchange)
        e3 == InsertSourceMetadata(ns, e2, <<LegacyKey, ks.offset_key>>,
                                   "offset", ks.delivery_tag)
        e4 == InsertVectorMetadata(ns, e3, "source_type", "source_type", "amqp")
    IN  IF ns = "Vector"
        THEN LET e5 == IF VectorTimestamp(timestamp) # "none"
                       THEN [e4 EXCEPT !.metadata =
                                Insert(@, <<"amqp", "timestamp">>,
                                       VectorTimestamp(timestamp))]
                       ELSE e4
             IN  [e5 EXCEPT !.metadata =
                     Insert(@, <<"vector", "ingest_timestamp">>, "now")]
        ELSE [e4 EXCEPT !.log =
                 TryInsert(@, "timestamp",
                           IF timestamp # "none" THEN timestamp ELSE "now")]

\* A delivery with routing key "rk", exchange "ex" and delivery tag 42 has
\* been pulled and its payload decoded into one event.
EnrichInit ==
    /\ acknowledgements = FALSE
    /\ pc = "sending"
    /\ result = "none"
    /\ exit = "none"
    /\ shutdown = FALSE
    /\ finalizer = FALSE
    /\ consumer = "pending"
    /\ nextTag = 2
    /\ cur = 1
    /\ payload = <<"ok">>
    /\ sendRes = [d \in Tags |-> "none"]
    /\ out = [d \in Tags |-> << >>]
    /\ entries = << >>
    /\ outcome = [d \in Tags |-> "none"]
    /\ ready = << >>
    /\ dispatched = << >>
    /\ calls = [d \in Tags |-> << >>]
    /\ ackRes = [d \in Tags |-> "none"]
    /\ handle = [d \in Tags |-> IF d = 1 THEN "loop" ELSE "broker"]
    /\ log_namespace \in {"Legacy", "Vector"}
    /\ \E r \in KeyNames, e \in KeyNames, o \in KeyNames :
           keys = [routing_key_field |-> r, exchange_key |-> e,
                   offset_key |-> o, routing |-> "rk", exchange |-> "ex",
                   delivery_tag |-> "42"]
    /\ properties \in [timestamp : Timestamps]
    /\ \E S \in SUBSET Fields :
           event = [log |-> [k \in S |-> "rec"], metadata |-> << >>,
                    populated |-> FALSE]

\* The stream! block of receive_event hands the decoded event to
\* populate_event with the timestamp converted from the message properties.
Populate ==
    /\ pc = "sending"
    /\ ~event.populated
    /\ event' = [PopulateEvent(event, TimestampMillisOpt(properties.timestamp),
                               keys, log_namespace)
                     EXCEPT !.populated = TRUE]
    /\ UNCHANGED <<log_namespace, keys, properties, ctl, pc, result, exit, brk,
                   cur, payload, snd, fin, ack>>

EnrichNext ==
    Populate

EnrichSpec == EnrichInit /\ [][EnrichNext]_vars

\* The step in which populate_event ran in the given namespace.
Populated(ns) ==
    /\ ~event.populated
    /\ event'.populated
    /\ log_namespace = ns

ConfiguredKeys == {keys.routing_key_field, keys.exchange_key, keys.offset_key}

\* Legacy placement of routing, exchange and offset: what the decoded record
\* held is kept, and a configured key it did not hold gets the delivery's
\* value (the first of the three to claim a name, when two options share it).
LegacyPlacement(log, new) ==
    /\ \A k \in DOMAIN log : k \in DOMAIN new /\ new[k] = log[k]
    /\ DOMAIN new = DOMAIN log \cup ConfiguredKeys \cup {"source_type", "timestamp"}
    /\ keys.routing_key_field \notin DOMAIN log
           => new[keys.routing_key_field] = keys.routing
    /\ keys.exchange_key \notin DOMAIN log \cup {keys.routing_key_field}
           => new[keys.exchange_key] = keys.exchange
    /\ keys.offset_key \notin
              DOMAIN log \cup {keys.routing_key_field, keys.exchange_key}
           => new[keys.offset_key] = keys.delivery_tag
    /\ event'.metadata = event.metadata

\* C18 as stated: in the Legacy namespace routing, exchange and offset are
\* written under the configured keys only where the decoded record holds
\* nothing, and the timestamp field, if not present, is the broker timestamp
\* whenever the broker supplied one and the ingest time when it supplied none.
C18_LegacyBrokerTimestamp ==
    [][Populated("Legacy") =>
          /\ LegacyPlacement(event.log, event'.log)
          /\ "timestamp" \notin DOMAIN event.log \cup ConfiguredKeys
                 => event'.log["timestamp"] =
                        IF properties.timestamp # "none"
                        THEN "instant" ELSE "now"]_vars

\* C18 amended: the same placement, and the timestamp field, if not present,
\* is the broker timestamp when the broker supplied one that converts to an
\* instant, and the ingest time when it supplied none or one out of range.
C18_LegacyEnrichment ==
    [][Populated("Legacy") =>
          /\ LegacyPlacement(event.log, event'.log)
          /\ "timestamp" \notin DOMAIN event.log \cup ConfiguredKeys
                 => event'.log["timestamp"] =
                        IF properties.timestamp = "in_range"
                        THEN "instant" ELSE "now"]_vars

\* C18 witness: a record that had its own exchange field was populated in the
\* Legacy namespace from a delivery whose timestamp is out of range: the
\* exchange is kept, the routing key is written, the timestamp is ingest time.
C18_Witness ==
    /\ event.populated
    /\ log_namespace = "Legacy"
    /\ properties.timestamp = "out_of_range"
    /\ keys.routing_key_field = "routing"
    /\ keys.exchange_key = "exchange"
    /\ keys.offset_key = "offset"
    /\ event.log["exchange"] = "rec"
    /\ event.log["routing"] = "rk"
    /\ event.log["offset"] = "42"
    /\ event.log["timestamp"] = "now"

\* Vector placement: the record is left as decoded, and routing, exchange,
\* offset, source type and ingest timestamp are in the metadata.
VectorPlacement(md) ==
    /\ event'.log = event.log
    /\ {<<"amqp", "routing">>, <<"amqp", "exchange">>, <<"amqp", "offset">>,
        <<"vector", "source_type">>, <<"vector", "ingest_timestamp">>}
           \subseteq DOMAIN md
    /\ md[<<"amqp", "routing">>] = keys.routing
    /\ md[<<"amqp", "exchange">>] = keys.exchange
    /\ md[<<"amqp", "offset">>] = keys.delivery_tag
    /\ md[<<"vector", "ingest_timestamp">>] = "now"

\* C19 as stated: in the Vector namespace routing, exchange and offset are
\* always in the metadata, the ingest timestamp is on every record, and the
\* broker timestamp is in the metadata exactly when the broker supplied one.
C19_VectorBrokerTimestamp ==
    [][Populated("Vector") =>
          /\ VectorPlacement(event'.metadata)
          /\ <<"amqp", "timestamp">> \in DOMAIN event'.metadata
                 <=> properties.timestamp # "none"]_vars

\* C19 amended: the same placement, and the broker timestamp is in the
\* metadata exactly when the broker supplied one that converts to an instant;
\* it is then that instant, never the ingest time.
C19_VectorEnrichment ==
    [][Populated("Vector") =>
          /\ VectorPlacement(event'.metadata)
          /\ <<"amqp", "timestamp">> \in DOMAIN event'.metadata
                 <=> properties.timestamp = "in_range"
          /\ <<"amqp", "timestamp">> \in DOMAIN event'.metadata
                 => event'.metadata[<<"amqp", "timestamp">>] = "instant"]_vars

\* C19 witness: a record with its own routing field was populated in the
\* Vector namespace from a delivery whose timestamp is out of range: the
\* field is untouched, the metadata has the routing key and the ingest
\* timestamp and no broker timestamp.
C19_Witness ==
    /\ event.populated
    /\ log_namespace = "Vector"
    /\ properties.timestamp = "out_of_range"
    /\ DOMAIN event.log = {"routing"}
    /\ event.log["routing"] = "rec"
    /\ event.metadata[<<"amqp", "routing">>] = "rk"
    /\ event.metadata[<<"vector", "ingest_timestamp">>] = "now"
    /\ <<"amqp", "timestamp">> \notin DOMAIN event.metadata

SetupFailed == exit \in {"connect", "basic_consume"}

InLoopBody == pc \in {"select", "sending", "acking", "dispatching"}

\* C20: a failed connect or a failed basic_consume is returned before the
\* loop is entered: the source is then finished with an error (a build error
\* from amqp_source for connect, Err(()) of run_amqp_source for
\* basic_consume), the loop never runs after a failed setup, and no message
\* was or will be pulled and no ack or reject made.
C20_SetupErrorsBeforeLoop ==
    /\ [](SetupFailed =>
            /\ pc = "done"
            /\ result = IF exit = "connect" THEN "build_error" ELSE "err"
            /\ exit = "connect" => ~finalizer
            /\ nextTag = 1
            /\ entries = << >> /\ dispatched = << >>
            /\ \A d \in Tags :
                   /\ calls[d] = << >>
                   /\ sendRes[d] = "none"
                   /\ handle[d] = "broker")
    /\ [](InLoopBody => (~SetupFailed /\ result = "none"))
    /\ [][(~SetupFailed /\ SetupFailed') => pc \in {"connect", "consume"}]_vars
    /\ [][SetupFailed =>
            UNCHANGED <<pc, result, exit, nextTag, cur, snd, fin, ack>>]_vars

\* C20 witness: basic_consume failed in the started task, after the finalizer
\* was made and the shutdown signal had fired.
C20_Witness ==
    /\ exit = "basic_consume"
    /\ result = "err"
    /\ pc = "done"
    /\ acknowledgements
    /\ finalizer
    /\ shutdown

\* C21: the shutdown signal does not preempt a delivery the loop has taken:
\* while the delivery is sent (or its immediate ack awaited) the shutdown arm
\* cannot be taken and no step leaves the loop; the send returns first, and
\* when it returns Ok with the signal fired the delivery is still registered
\* (finalizer) or acked (no finalizer). A loop left by shutdown leaves no
\* pulled delivery unsent.
C21_ShutdownDoesNotPreempt ==
    /\ [](pc \in {"sending", "acking", "dispatching"} => ~ENABLED SelectShutdown)
    /\ [][(pc = "sending" /\ shutdown) =>
            /\ pc' \in {"sending", "select", "acking"}
            /\ exit' = "none" /\ result' = "none"
            /\ sendRes'[cur] = "ok" =>
                  IF acknowledgements
                  THEN cur \in Range(entries') /\ handle'[cur] = "finalizer"
                  ELSE calls'[cur] = <<"ack">> /\ pc' = "acking"]_vars
    /\ [][(pc = "acking" /\ shutdown) =>
            (pc' \in {"acking", "select"} /\ exit' = "none")]_vars
    /\ [](exit = "shutdown" =>
            \A d \in Tags :
                d < nextTag =>
                    /\ sendRes[d] # "none"
                    /\ handle[d] # "loop"
                    /\ (sendRes[d] = "ok" /\ ~acknowledgements)
                           => (calls[d] = <<"ack">> /\ ackRes[d] # "none"))

\* C21 witness: the signal has fired and the loop, not yet left, is sending
\* its second delivery after registering the first.
C21_Witness ==
    /\ shutdown
    /\ pc = "sending"
    /\ cur = 2
    /\ acknowledgements
    /\ entries = <<1>>
    /\ exit = "none"

\* C22: a delivery that decoded to no record (empty payload, no successful
\* attempt, or a non-continuable error first) and whose send returned Ok is
\* settled like any other: registered with the finalizer when there is one,
\* acked at once when there is none; the step makes no reject call and does
\* not drop the handle.
C22_ZeroRecordsSettled ==
    [][(pc = "sending" /\ Decode(payload) = << >> /\ sendRes'[cur] = "ok") =>
          /\ out'[cur] = << >>
          /\ handle'[cur] # "dropped"
          /\ IF acknowledgements
             THEN /\ entries' = Append(entries, cur)
                  /\ handle'[cur] = "finalizer"
                  /\ calls'[cur] = << >>
                  /\ pc' = "select"
             ELSE /\ calls'[cur] = <<"ack">>
                  /\ handle'[cur] = "consumed"
                  /\ entries' = << >>
                  /\ pc' = "acking"]_vars

\* C22 witness: with acknowledgements on, a delivery that gave no record was
\* sent and is registered.
C22_Witness ==
    /\ acknowledgements
    /\ sendRes[1] = "ok"
    /\ out[1] = << >>
    /\ entries = <<1>>
    /\ handle[1] = "finalizer"
    /\ pc = "select"

\* C23: with acknowledgements off no reject is ever made: there is no
\* finalizer and no dispatched completion, and a delivery's handle got
\* exactly one ack when its send returned Ok and no call at all otherwise.
C23_NoRejectWithoutAcks ==
    ~acknowledgements =>
        /\ ~finalizer
        /\ dispatched = << >>
        /\ \A d \in Tags :
               /\ \A i \in 1..Len(calls[d]) : calls[d][i] # "reject"
               /\ calls[d] = IF sendRes[d] = "ok" THEN <<"ack">> ELSE << >>
               /\ sendRes[d] = "fail" => (ackRes[d] = "none" /\ handle[d] = "dropped")

\* C23 witness: acknowledgements off, one delivery's send failed and it got
\* no call, the next one was sent and its ack has returned.
C23_Witness ==
    /\ ~acknowledgements
    /\ sendRes[1] = "fail" /\ calls[1] = << >>
    /\ sendRes[2] = "ok" /\ calls[2] = <<"ack">>
    /\ ackRes[2] # "none"

\* What an iteration of the loop took, read off the step that leaves select!.
TookShutdown == exit' = "shutdown"

TookCompletion == Len(dispatched') = Len(dispatched) + 1

TookBroker == consumer # "pending" /\ consumer' # consumer

ArmsTaken ==
    (IF TookShutdown THEN {"shutdown"} ELSE {})
        \cup (IF TookCompletion THEN {"ack_stream"} ELSE {})
        \cup (IF TookBroker THEN {"consumer"} ELSE {})

\* C24: an iteration takes exactly one arm of select!, one that is ready, and
\* no arm has priority: with the shutdown signal fired, a ready completion can
\* still be dispatched and a ready broker message still be handled, and the
\* shutdown arm can be taken as well.
C24_OneArmNoPriority ==
    /\ [][(pc = "select" /\ pc' # "select") =>
            /\ Cardinality(ArmsTaken) = 1
            /\ TookShutdown => shutdown
            /\ TookCompletion => (finalizer /\ ready # << >>)]_vars
    /\ []((pc = "select" /\ shutdown) => ENABLED SelectShutdown)
    /\ []((pc = "select" /\ shutdown /\ ready # << >>) => ENABLED SelectCompletion)
    /\ []((pc = "select" /\ shutdown /\ consumer = "msg")
              => ENABLED (\E p \in Payloads : SelectMessage(p)))
    /\ []((pc = "select" /\ ready # << >> /\ consumer = "msg")
              => (/\ ENABLED SelectCompletion
                  /\ ENABLED (\E p \in Payloads : SelectMessage(p))))

\* C24 witness: the loop is at select! with the shutdown signal fired, a
\* completion resolved and a broker message available, all three at once.
C24_Witness ==
    /\ pc = "select"
    /\ shutdown
    /\ ready # << >>
    /\ consumer = "msg"

====
